---- MODULE Spec2Model ----
(***************************************************************************)
(* gdrive-file-info (src/index.js): fetchInfo, getItemId and their helpers *)
(* as a state machine.  JavaScript strings are TLA+ strings, read with Len *)
(* and SubSeq; the other JavaScript values are tagged records.             *)
(***************************************************************************)
EXTENDS Naturals, Sequences, FiniteSets, TLC

\* ------------------------------------------------------------ JS values
Undefined == [t |-> "undefined"]
Null == [t |-> "null"]
Str(s) == [t |-> "string", s |-> s]
Num(n) == [t |-> "number", n |-> n]
Obj(props) == [t |-> "object", props |-> props]

\* JSToString, as applied by RegExp.prototype.test and by new URL to an argument
JSToString(v) ==
  IF v.t = "string" THEN v.s
  ELSE IF v.t = "undefined" THEN "undefined"
  ELSE IF v.t = "null" THEN "null"
  ELSE "[object Object]"

\* ToBoolean
Truthy(v) ==
  IF v.t \in {"undefined", "null"} THEN FALSE
  ELSE IF v.t = "string" THEN v.s # ""
  ELSE IF v.t = "number" THEN v.n # 0
  ELSE TRUE

\* ------------------------------------------------------- string methods
\* Every value that is read more than once is an operator parameter.
Ch(s, i) == SubSeq(s, i, i)

From(s, i) == SubSeq(s, i, Len(s))

StartsWith(s, p) == Len(s) >= Len(p) /\ SubSeq(s, 1, Len(p)) = p

Least(set) == CHOOSE i \in set : \A j \in set : i <= j

LeastOrZero(set) == IF set = {} THEN 0 ELSE Least(set)

\* the k-th smallest member of set
Nth(set, k) == CHOOSE i \in set : Cardinality({j \in set : j < i}) = k - 1

\* the positions (from 1) at which p occurs in s
Occurrences(s, p) == {j \in 1..(Len(s) + 1 - Len(p)) : SubSeq(s, j, j + Len(p) - 1) = p}

\* position of the first occurrence of p in s at or after i; 0 if none
IndexFrom(s, p, i) == LeastOrZero({j \in Occurrences(s, p) : j >= i})

\* position of the first character of s at or after i that is in set; Len(s)+1 if none
FirstIn(s, set, i) == Least({j \in i..Len(s) : Ch(s, j) \in set} \cup {Len(s) + 1})

\* position of the first character of s at or after i that is not in set
FirstNotIn(s, set, i) == Least({j \in i..Len(s) : Ch(s, j) \notin set} \cup {Len(s) + 1})

AllIn(s, set) == \A j \in 1..Len(s) : Ch(s, j) \in set

\* String.prototype.replace(pattern, replacement) with a string pattern:
\* only the first occurrence, wherever it is
ReplaceAt(s, p, r, i) ==
  IF i = 0 THEN s ELSE SubSeq(s, 1, i - 1) \o r \o From(s, i + Len(p))

StringReplace(s, p, r) == ReplaceAt(s, p, r, IndexFrom(s, p, 1))

\* String.prototype.split(sep) with a separator of one character
SplitAt(s, seps) ==
  [k \in 1..(Cardinality(seps) + 1) |->
     SubSeq(s, Nth(seps \cup {0}, k) + 1, Nth(seps \cup {Len(s) + 1}, k) - 1)]

StringSplit(s, sep) == SplitAt(s, Occurrences(s, sep))

UpperAlpha == "ABCDEFGHIJKLMNOPQRSTUVWXYZ"
LowerAlpha == "abcdefghijklmnopqrstuvwxyz"
DigitChars == "0123456789"

CharSet(s) == {Ch(s, i) : i \in 1..Len(s)}

LowerCharAt(c, i) == IF i = 0 THEN c ELSE Ch(LowerAlpha, i)

LowerChar(c) == LowerCharAt(c, IndexFrom(UpperAlpha, c, 1))

RECURSIVE ToLowerCase(_)
ToLowerCase(s) ==
  IF Len(s) = 0 THEN ""
  ELSE IF Len(s) = 1 THEN LowerChar(s)
  ELSE ToLowerCase(SubSeq(s, 1, Len(s) \div 2)) \o ToLowerCase(From(s, Len(s) \div 2 + 1))

\* ----------------------------------------------------- src/index.js 12-16
JSON_PADDING == ")]}'"

MinIdLen == 8
MaxIdLen == 64
IdChars == CharSet(LowerAlpha) \cup CharSet(UpperAlpha) \cup CharSet(DigitChars) \cup {"_", "-"}

\* /^[a-zA-Z0-9_-]{8,64}$/ on a string
MatchesIdPattern(s) == Len(s) >= MinIdLen /\ Len(s) <= MaxIdLen /\ AllIn(s, IdChars)

\* isID = str => /^[a-zA-Z0-9_-]{8,64}$/.test(str): test() converts its argument
\* to a string first
isID(str) == MatchesIdPattern(JSToString(str))

\* isUrl = str => /^https?:\/\//.test(str)
isUrl(str) == StartsWith(JSToString(str), "http://") \/ StartsWith(JSToString(str), "https://")

\* isRedirect = code => code >= 300 & code < 400: bitwise and of two booleans, 1 or 0
isRedirect(code) == IF code >= 300 /\ code < 400 THEN 1 ELSE 0

\* ------------------------------------------- new URL(url), WHATWG URL
\* Completion records of a call: a value returned or an error thrown.
Return(v) == [kind |-> "return", val |-> v]
Throw(e) == [kind |-> "throw", err |-> e]

TypeError(msg) == [t |-> "object", cls |-> "TypeError", message |-> msg]
SyntaxError(msg) == [t |-> "object", cls |-> "SyntaxError", message |-> msg]

SpecialSchemes == {"http", "https", "ftp", "ws", "wss"}
SchemeChars == CharSet(LowerAlpha) \cup CharSet(UpperAlpha) \cup CharSet(DigitChars) \cup {"+", "-", "."}
\* code points that end the authority, and those a host may not hold
AuthorityEnd == {"/", "?", "#", "\\"}
ForbiddenHostChars == {" ", "<", ">", "[", "]", "^", "|", "%", "@", ":", "\n", "\t"}

\* URLSearchParams.get(name) on the query string (without its "?"): the value of the
\* first name=value pair of that name, null if there is none
PairName(pair, eq) == IF eq = 0 THEN pair ELSE SubSeq(pair, 1, eq - 1)
PairValue(pair, eq) == IF eq = 0 THEN "" ELSE From(pair, eq + 1)

FirstPairNamed(pairs, name, hits) ==
  IF hits = {} THEN Null
  ELSE Str(PairValue(pairs[Least(hits)], IndexFrom(pairs[Least(hits)], "=", 1)))

SearchParamsGetFrom(pairs, name) ==
  FirstPairNamed(pairs, name,
    {i \in 1..Len(pairs) :
       pairs[i] # "" /\ PairName(pairs[i], IndexFrom(pairs[i], "=", 1)) = name})

SearchParamsGet(parsed, name) ==
  SearchParamsGetFrom(StringSplit(From(parsed.search, 2), "&"), name)

\* new URL(url): the parsed URL, or a thrown TypeError when url is no absolute URL.
\* Covers URLs without credentials, port, percent-escapes and dot segments; the
\* stages are the parser's states, each handing on what it has read.
URLQueryState(host, noFragment, qmark) ==
  Return([t |-> "URL", hostname |-> ToLowerCase(host),
          pathname |-> IF qmark = 1 THEN "/" ELSE SubSeq(noFragment, 1, qmark - 1),
          search |-> IF qmark >= Len(noFragment) THEN "" ELSE From(noFragment, qmark)])

URLPathState(host, tail) ==
  IF host = "" \/ \E j \in 1..Len(host) : Ch(host, j) \in ForbiddenHostChars
    THEN Throw(TypeError("Invalid URL"))
  ELSE URLQueryState(host, SubSeq(tail, 1, FirstIn(tail, {"#"}, 1) - 1),
                     FirstIn(SubSeq(tail, 1, FirstIn(tail, {"#"}, 1) - 1), {"?"}, 1))

URLHostState(rest, hostEnd) == URLPathState(SubSeq(rest, 3, hostEnd - 1), From(rest, hostEnd))

URLAuthorityState(scheme, rest) ==
  IF scheme \notin SpecialSchemes \/ ~StartsWith(rest, "//")
    THEN Return([t |-> "URL", hostname |-> "", pathname |-> rest, search |-> ""])
  ELSE URLHostState(rest, FirstIn(rest, AuthorityEnd, 3))

URLSchemeState(s, colon) ==
  IF colon <= 1 \/ Ch(s, 1) \notin (CharSet(LowerAlpha) \cup CharSet(UpperAlpha))
     \/ ~AllIn(SubSeq(s, 1, colon - 1), SchemeChars)
    THEN Throw(TypeError("Invalid URL"))
  ELSE URLAuthorityState(ToLowerCase(SubSeq(s, 1, colon - 1)), From(s, colon + 1))

URLParse(s) == URLSchemeState(s, IndexFrom(s, ":", 1))

NewURL(url) == URLParse(JSToString(url))

\* ----------------------------------------------------- src/index.js 112-116
\* function parseUrl(url): try { return new URL(url); } catch (err) {}
CatchAll(completion) == IF completion.kind = "return" THEN completion.val ELSE Undefined

parseUrl(url) == CatchAll(NewURL(url))

\* function getHostname(url): parsed && parsed.hostname
HostnameOf(parsed) == IF Truthy(parsed) THEN Str(parsed.hostname) ELSE parsed

getHostname(url) == HostnameOf(parseUrl(url))

\* ------------------------------------------------------ src/index.js 94-100
\* function getItemId(url): a property read on undefined throws a TypeError; a
\* function that reaches its end returns undefined
\* a variant with the two routes exchanged
getItemIdRouteSwapped(parsed, segments) ==
  IF segments[Len(segments)] = "view" THEN Return(SearchParamsGet(parsed, "id"))
  ELSE IF segments[Len(segments)] = "open"
    THEN Return(IF Len(segments) >= 2 THEN Str(segments[Len(segments) - 1]) ELSE Undefined)
  ELSE Return(Undefined)

\* a variant that throws when no route matches
getItemIdRouteStrict(parsed, segments) ==
  IF segments[Len(segments)] = "open" THEN Return(SearchParamsGet(parsed, "id"))
  ELSE IF segments[Len(segments)] = "view"
    THEN Return(IF Len(segments) >= 2 THEN Str(segments[Len(segments) - 1]) ELSE Undefined)
  ELSE Throw(TypeError("Unable to extract item id"))

\* lines 97-99, with route = segments[segments.length - 1]
getItemIdRoute(parsed, segments) ==
  IF segments[Len(segments)] = "open" THEN Return(SearchParamsGet(parsed, "id"))
  ELSE IF segments[Len(segments)] = "view"
    THEN Return(IF Len(segments) >= 2 THEN Str(segments[Len(segments) - 1]) ELSE Undefined)
  ELSE Return(Undefined)

\* line 96
getItemIdParsed(parsed) ==
  IF parsed.t = "undefined"
    THEN Throw(TypeError("Cannot read property 'pathname' of undefined"))
  ELSE getItemIdRoute(parsed, StringSplit(parsed.pathname, "/"))

\* line 95
getItemId(url) == getItemIdParsed(parseUrl(url))

\* ------------------------------------------------------------ JSON.parse
\* JSON.parse for strings without escapes, non-negative integers and objects of them.
JsonWhitespace == {" ", "\n", "\t", "\r"}
SkipWs(s, i) == FirstNotIn(s, JsonWhitespace, i)

ParseFail == [ok |-> FALSE, val |-> Undefined, next |-> 0]
ParseOk(v, next) == [ok |-> TRUE, val |-> v, next |-> next]

RECURSIVE DigitsValue(_)
DigitsValue(d) ==
  IF d = "" THEN 0
  ELSE DigitsValue(SubSeq(d, 1, Len(d) - 1)) * 10 + (IndexFrom(DigitChars, Ch(d, Len(d)), 1) - 1)

\* a string literal whose opening quote is at i and whose closing quote is at close
StringLiteral(s, i, close) ==
  IF close = 0 \/ \E j \in (i + 1)..(close - 1) : Ch(s, j) \in {"\\", "\n"} THEN ParseFail
  ELSE ParseOk(Str(SubSeq(s, i + 1, close - 1)), close + 1)

ParseString(s, i) == StringLiteral(s, i, IndexFrom(s, "\"", i + 1))

\* a number made of digits (no leading zero before another digit), ending before end
NumberLiteral(digits, end) ==
  IF Len(digits) > 1 /\ Ch(digits, 1) = "0" THEN ParseFail
  ELSE ParseOk(Num(DigitsValue(digits)), end)

ParseNumber(s, i) ==
  NumberLiteral(SubSeq(s, i, FirstNotIn(s, CharSet(DigitChars), i) - 1),
                FirstNotIn(s, CharSet(DigitChars), i))

\* a string or a number at i
ScalarAt(s, i) ==
  IF i > Len(s) THEN ParseFail
  ELSE IF Ch(s, i) = "\"" THEN ParseString(s, i)
  ELSE IF Ch(s, i) \in CharSet(DigitChars) THEN ParseNumber(s, i)
  ELSE ParseFail

ParseScalar(s, from) == ScalarAt(s, SkipWs(s, from))

\* the members of an object from the key at i on; a repeated key keeps the last value
RECURSIVE ParseMembers(_, _, _), MemberEnd(_, _, _), MemberValue(_, _, _, _), MemberColon(_, _, _, _)
ParseMembers(s, i, props) ==
  IF i > Len(s) \/ Ch(s, i) # "\"" THEN ParseFail
  ELSE MemberColon(s, props, ParseString(s, i), SkipWs(s, ParseString(s, i).next))

MemberColon(s, props, k, colon) ==
  IF ~k.ok \/ colon > Len(s) \/ Ch(s, colon) # ":" THEN ParseFail
  ELSE MemberValue(s, props, k.val.s, ParseScalar(s, colon + 1))

MemberValue(s, props, name, v) ==
  IF ~v.ok THEN ParseFail
  ELSE MemberEnd(s, [key \in DOMAIN props \cup {name} |-> IF key = name THEN v.val ELSE props[key]],
                 SkipWs(s, v.next))

MemberEnd(s, props, e) ==
  IF e > Len(s) THEN ParseFail
  ELSE IF Ch(s, e) = "}" THEN ParseOk(Obj(props), e + 1)
  ELSE IF Ch(s, e) = "," THEN ParseMembers(s, SkipWs(s, e + 1), props)
  ELSE ParseFail

\* a value at i: an object of strings and numbers (its first member at j), a string
\* or a number
ValueAt(s, i, j) ==
  IF i > Len(s) THEN ParseFail
  ELSE IF Ch(s, i) # "{" THEN ScalarAt(s, i)
  ELSE IF j <= Len(s) /\ Ch(s, j) = "}" THEN ParseOk(Obj(<<>>), j + 1)
  ELSE ParseMembers(s, j, <<>>)

ParseValue(s, from) == ValueAt(s, SkipWs(s, from), SkipWs(s, SkipWs(s, from) + 1))

WholeText(text, v) ==
  IF v.ok /\ SkipWs(text, v.next) > Len(text) THEN Return(v.val)
  ELSE Throw(SyntaxError("Unexpected token in JSON"))

JSONparse(text) == WholeText(text, ParseValue(text, 1))

\* ------------------------------------------------------------ got errors
\* got.HTTPError: the response had a status outside 2xx; err.response.headers
HTTPError(statusCode, location) ==
  [t |-> "object", cls |-> "HTTPError", statusCode |-> statusCode,
   response |-> [headers |-> [location |-> location]]]

\* got.RequestError: the request failed before any response
RequestError(code) == [t |-> "object", cls |-> "RequestError", code |-> code]

\* a variant that forgets the cause
GDriveErrorNoReason(msg, reason) == [t |-> "object", cls |-> "GDriveError", message |-> msg]

\* ------------------------------------------------------ src/index.js 24-30
\* class GDriveError: constructor(msg, reason) { super(msg); if (reason) this.reason = reason; }
GDriveError(msg, reason) ==
  IF Truthy(reason)
    THEN [t |-> "object", cls |-> "GDriveError", message |-> msg, reason |-> reason]
  ELSE [t |-> "object", cls |-> "GDriveError", message |-> msg]

\* a variant that does not look at the status
redirectsToAnyStatus(err, hostname) ==
  getHostname(err.response.headers.location) = Str(hostname)

\* ----------------------------------------------------- src/index.js 102-105
\* function redirectsTo(err, hostname)
redirectsTo(err, hostname) ==
  /\ isRedirect(err.statusCode) # 0
  /\ getHostname(err.response.headers.location) = Str(hostname)

\* ------------------------------------------------------- src/index.js 60-78
\* lines 62-65: the identifier checked, then the request r.post('/uc', { query })
fetchInfoRequest(id) ==
  IF id.kind = "throw" THEN id
  ELSE IF ~isID(id.val) THEN Throw(TypeError("Invalid ID provided."))
  ELSE [kind |-> "request", method |-> "POST", path |-> "/uc", query |-> [id |-> id.val]]

\* line 61: the identifier of the input
fetchInfoBegin(input) ==
  fetchInfoRequest(IF isUrl(input) THEN getItemId(input) ELSE Return(input))

\* a variant that attaches a thumbnail function to the decoded record
WithProperty(completion, name, value) ==
  IF completion.kind # "return" \/ completion.val.t # "object" THEN completion
  ELSE Return(Obj([key \in DOMAIN completion.val.props \cup {name} |->
                     IF key = name THEN value ELSE completion.val.props[key]]))

fetchInfoTryWithThumbnail(resp) ==
  WithProperty(JSONparse(StringReplace(resp.body, JSON_PADDING, "")),
               "getThumbnailUrl", [t |-> "function"])

\* lines 66-67: the body of the response, decoded
fetchInfoTry(resp) == JSONparse(StringReplace(resp.body, JSON_PADDING, ""))

\* a variant without line 69
fetchInfoCatchWrapsAll(err) ==
  IF "statusCode" \in DOMAIN err /\ err.statusCode = 404
    THEN GDriveError("Item is not found.", err)
  ELSE IF "statusCode" \in DOMAIN err /\ redirectsTo(err, "accounts.google.com")
    THEN GDriveError("Item is not accessible.", err)
  ELSE GDriveError("Failed to fetch info.", err)

\* lines 68-77: the error thrown by the catch clause for the error caught
fetchInfoCatch(err) ==
  IF err.cls # "HTTPError" THEN err
  ELSE IF err.statusCode = 404 THEN GDriveError("Item is not found.", err)
  ELSE IF redirectsTo(err, "accounts.google.com")
    THEN GDriveError("Item is not accessible.", err)
  ELSE GDriveError("Failed to fetch info.", err)

\* ------------------------------------------------------------ the state
\* the number of fetchInfo calls a run makes, any of them in flight together
NumCalls == 2
Calls == 1..NumCalls

NoValue == [kind |-> "none"]

VARIABLES
  pc,         \* per call: "idle", "awaiting" (at the await of line 65), "resolved", "rejected"
  input,      \* per call: the argument of fetchInfo
  requests,   \* per call: the HTTP requests it has issued, in order
  response,   \* per call: what the request ended with, a response or an error
  outcome,    \* per call: the value its promise resolved to or the error it rejected with
  parts,      \* getItemId alone: what the URL under test was built from
  url,        \* getItemId alone: its argument
  extracted   \* getItemId alone: its completion

vars == <<pc, input, requests, response, outcome, parts, url, extracted>>
fetchVars == <<pc, input, requests, response, outcome>>
extractVars == <<parts, url, extracted>>

\* ------------------------------------------------------------ the inputs
PublicId == "1ObJEVgO6Y4cFjfxszUb1LhdyeKrq_wGD"
PictureId == "1X-1PiZWpgZrpmBcVpyUPSuz_7hI383LC"
TooLongId == PublicId \o PictureId

FetchInputs ==
  { Str(PublicId),
    Str("Invalid **video** id"),
    Str("abcdefg"),
    Str(TooLongId),
    Str("https://drive.google.com/open?id=" \o PublicId),
    Str("https://drive.google.com/open?id=abcdefg"),
    Str("https://drive.google.com/open"),
    Str("https://drive.google.com/file/d/ab*defgh/view?usp=sharing"),
    Str("https://drive.google.com/uc?id=" \o PublicId),
    Str("http://") }

\* 2xx responses of POST /uc
Responses ==
  { [kind |-> "response", body |-> b] : b \in
    { ")]}'\n{\"disposition\":\"SCAN_CLEAN\",\"fileName\":\"flower.png\",\"scanResult\":\"OK\",\"sizeBytes\":114590}",
      "{\"fileName\":\"dummy.txt\",\"sizeBytes\":0}",
      "{\"fileName\":\"a)]}'b\"}",
      ")]}'{\"fileName\":\"a)]}'b\"}",
      "<html>" } }

AccountsLocation == Str("https://accounts.google.com/ServiceLogin?continue=x")

\* the errors r.post rejects with: HTTP statuses outside 2xx, and a failed connection
HttpFailures ==
  { HTTPError(404, Undefined),
    HTTPError(302, AccountsLocation),
    HTTPError(302, Undefined),
    HTTPError(302, Str("/ServiceLogin")),
    HTTPError(302, Str("https://drive.google.com/accounts.google.com")),
    HTTPError(399, AccountsLocation),
    HTTPError(400, AccountsLocation),
    HTTPError(500, Undefined) }

RequestFailures == HttpFailures \cup {RequestError("ECONNREFUSED")}

\* ------------------------------------------------------ fetchInfo, 60-78
FetchInit ==
  /\ pc = [c \in Calls |-> "idle"]
  /\ input = [c \in Calls |-> Undefined]
  /\ requests = [c \in Calls |-> <<>>]
  /\ response = [c \in Calls |-> NoValue]
  /\ outcome = [c \in Calls |-> NoValue]

ExtractIdle ==
  /\ parts = NoValue
  /\ url = Undefined
  /\ extracted = NoValue

Init == FetchInit /\ ExtractIdle

\* fetchInfo(in) up to its await, lines 61-65: begun is a thrown error or the request
Begin(c, begun) ==
  IF begun.kind = "throw"
    THEN /\ pc' = [pc EXCEPT ![c] = "rejected"]
         /\ outcome' = [outcome EXCEPT ![c] = begun]
         /\ UNCHANGED requests
  ELSE /\ pc' = [pc EXCEPT ![c] = "awaiting"]
       /\ requests' = [requests EXCEPT ![c] = Append(@, begun)]
       /\ UNCHANGED outcome

Call(c, in) ==
  /\ pc[c] = "idle"
  /\ input' = [input EXCEPT ![c] = in]
  /\ Begin(c, fetchInfoBegin(in))
  /\ UNCHANGED <<response, extractVars>>

\* the request is answered with a 2xx response: lines 66-67, and 68-69 when
\* JSON.parse throws
Settle(c, decoded) ==
  IF decoded.kind = "return"
    THEN /\ pc' = [pc EXCEPT ![c] = "resolved"]
         /\ outcome' = [outcome EXCEPT ![c] = decoded]
  ELSE /\ pc' = [pc EXCEPT ![c] = "rejected"]
       /\ outcome' = [outcome EXCEPT ![c] = Throw(fetchInfoCatch(decoded.err))]

Fulfil(c, resp) ==
  /\ pc[c] = "awaiting"
  /\ response' = [response EXCEPT ![c] = resp]
  /\ Settle(c, fetchInfoTry(resp))
  /\ UNCHANGED <<input, requests, extractVars>>

\* a variant that issues the request again when it has failed
FailThenRetry(c, err) ==
  /\ pc[c] = "awaiting"
  /\ Len(requests[c]) < 3
  /\ response' = [response EXCEPT ![c] = [kind |-> "error", err |-> err]]
  /\ requests' = [requests EXCEPT ![c] = Append(@, @[1])]
  /\ UNCHANGED <<pc, outcome, input, extractVars>>

\* the request fails: lines 68-77
Fail(c, err) ==
  /\ pc[c] = "awaiting"
  /\ response' = [response EXCEPT ![c] = [kind |-> "error", err |-> err]]
  /\ pc' = [pc EXCEPT ![c] = "rejected"]
  /\ outcome' = [outcome EXCEPT ![c] = Throw(fetchInfoCatch(err))]
  /\ UNCHANGED <<input, requests, extractVars>>

Next ==
  \E c \in Calls :
    \/ \E in \in FetchInputs : Call(c, in)
    \/ \E resp \in Responses : Fulfil(c, resp)
    \/ \E err \in RequestFailures : Fail(c, err)

Spec == Init /\ [][Next]_vars

\* ------------------------------------------------- getItemId alone, 94-100
\* URLs are built from a scheme, a host, path segments and query pairs, so that a
\* claim can name the part it expects back; Unparseable are strings new URL rejects.
Schemes == {"http", "https"}
Paths ==
  { <<>>, <<"open">>, <<"view">>, <<"uc">>, <<"d">>,
    <<"file", "d", PublicId, "view">>,
    <<"file", "d", PictureId, "view">>,
    <<"file", "d", PublicId, "edit">>,
    <<"file", "d", PublicId>>,
    <<"file", "d", PublicId, "view", "">>,
    <<"d", PublicId, "x", "view">>,
    <<"folders", PictureId, "view">>,
    <<"a", "open">>,
    <<"open", "d", PublicId>> }
Queries ==
  { <<>>,
    <<<<"id", PublicId>>>>,
    <<<<"usp", "sharing">>>>,
    <<<<"usp", "sharing">>, <<"id", PictureId>>>>,
    <<<<"id", PictureId>>, <<"id", PublicId>>>>,
    <<<<"id", "">>>> }
Unparseable == {"http://", "https://a b/open?id=" \o PublicId, "//drive.google.com/d/" \o PublicId \o "/view"}

UrlParts ==
  { [raw |-> "", scheme |-> s, host |-> "drive.google.com", segs |-> p, query |-> q] :
      s \in Schemes, p \in Paths, q \in Queries }
  \cup { [raw |-> u, scheme |-> "", host |-> "", segs |-> <<>>, query |-> <<>>] : u \in Unparseable }

RECURSIVE JoinPath(_)
JoinPath(segs) == IF segs = <<>> THEN "" ELSE "/" \o Head(segs) \o JoinPath(Tail(segs))

RECURSIVE JoinQuery(_)
JoinQuery(query) ==
  IF query = <<>> THEN ""
  ELSE Head(query)[1] \o "=" \o Head(query)[2]
       \o (IF Tail(query) = <<>> THEN "" ELSE "&" \o JoinQuery(Tail(query)))

BuildUrl(p) ==
  IF p.raw # "" THEN p.raw
  ELSE p.scheme \o "://" \o p.host \o JoinPath(p.segs)
       \o (IF p.query = <<>> THEN "" ELSE "?" \o JoinQuery(p.query))

InitExtract ==
  /\ FetchInit
  /\ parts \in UrlParts
  /\ url = Str(BuildUrl(parts))
  /\ extracted = NoValue

Extract ==
  /\ extracted = NoValue
  /\ extracted' = getItemId(url)
  /\ UNCHANGED <<fetchVars, parts, url>>

NextExtract == Extract

SpecExtract == InitExtract /\ [][NextExtract]_vars

\* ================================================================ claims
\* ---------------------------------------------------------------- fetchInfo
Settled(c) == pc[c] \in {"resolved", "rejected"}

HttpFailed(c) == response[c].kind = "error" /\ response[c].err.cls = "HTTPError"

Rejected(c, cls, message) ==
  /\ pc[c] = "rejected"
  /\ outcome[c].kind = "throw"
  /\ outcome[c].err.cls = cls
  /\ outcome[c].err.message = message

\* the candidate identifier of an input: the input itself, or what getItemId
\* extracts from a link; it matches when it is a string of the identifier pattern
Candidate(in) == IF isUrl(in) THEN getItemId(in) ELSE Return(in)
CandidateMatches(cand) ==
  cand.kind = "return" /\ cand.val.t = "string" /\ MatchesIdPattern(cand.val.s)

\* C1: a call whose candidate identifier does not match the identifier pattern
\* rejects with TypeError 'Invalid ID provided.' and issues no HTTP request.
C1_InvalidIdRejected ==
  \A c \in Calls :
    (pc[c] # "idle" /\ ~CandidateMatches(Candidate(input[c])))
      => (Rejected(c, "TypeError", "Invalid ID provided.") /\ requests[c] = <<>>)

\* the message the claim expects for an HTTP error, from its status and Location
ExpectedMessage(err) ==
  IF err.statusCode = 404 THEN "Item is not found."
  ELSE IF err.statusCode \in 300..399 /\ err.response.headers.location = AccountsLocation
    THEN "Item is not accessible."
  ELSE "Failed to fetch info."

\* C2: when the request fails with an HTTP error, the call rejects with a GDriveError
\* whose message is decided by the status and the Location header alone: 404, then a
\* 3xx to accounts.google.com, then everything else.
C2_HttpErrorClassified ==
  \A c \in Calls :
    HttpFailed(c) => Rejected(c, "GDriveError", ExpectedMessage(response[c].err))

C2_Witness ==
  \E c, d \in Calls :
    /\ HttpFailed(c) /\ response[c].err.statusCode = 302
    /\ Rejected(c, "GDriveError", "Item is not accessible.")
    /\ HttpFailed(d) /\ response[d].err.statusCode = 302
    /\ Rejected(d, "GDriveError", "Failed to fetch info.")

\* C3: an error that is no HTTP error, from the request or from decoding the body,
\* is what the call rejects with, unchanged and unwrapped.
C3_OtherErrorsUnchanged ==
  \A c \in Calls :
    /\ (response[c].kind = "error" /\ response[c].err.cls # "HTTPError")
         => (pc[c] = "rejected" /\ outcome[c] = Throw(response[c].err))
    /\ (response[c].kind = "response" /\ pc[c] = "rejected")
         => outcome[c] = Throw(SyntaxError("Unexpected token in JSON"))

C3_Witness ==
  \E c, d \in Calls :
    /\ response[c].kind = "error" /\ outcome[c] = Throw(RequestError("ECONNREFUSED"))
    /\ response[d].kind = "response" /\ Rejected(d, "SyntaxError", "Unexpected token in JSON")

\* C4: every GDriveError a call rejects with has a reason, the HTTP error the request
\* failed with.
C4_ReasonKept ==
  \A c \in Calls :
    (outcome[c].kind = "throw" /\ outcome[c].err.cls = "GDriveError")
      => /\ "reason" \in DOMAIN outcome[c].err
         /\ HttpFailed(c)
         /\ outcome[c].err.reason = response[c].err

C4_Witness ==
  \E c, d \in Calls :
    /\ Rejected(c, "GDriveError", "Item is not found.")
    /\ outcome[c].err.reason = HTTPError(404, Undefined)
    /\ Rejected(d, "GDriveError", "Failed to fetch info.")
    /\ outcome[d].err.reason = HTTPError(500, Undefined)

\* C8 as stated: every record a call resolves to carries a thumbnail capability bound
\* to the identifier of the request.
C8_ThumbnailAttached ==
  \A c \in Calls :
    pc[c] = "resolved"
      => /\ outcome[c].val.t = "object"
         /\ \E key \in DOMAIN outcome[c].val.props :
              /\ outcome[c].val.props[key].t = "function"
              /\ outcome[c].val.props[key].id = requests[c][1].query.id

\* C8 amended: every record a call resolves to holds only what was decoded from the
\* response body: each of its properties is under a key the body spells out, and none
\* is a function, so no thumbnail capability is attached.
C8_OnlyDecodedFields ==
  \A c \in Calls :
    pc[c] = "resolved"
      => /\ outcome[c].val.t = "object"
         /\ \A key \in DOMAIN outcome[c].val.props :
              /\ outcome[c].val.props[key].t # "function"
              /\ IndexFrom(response[c].body, "\"" \o key \o "\"", 1) > 0

C8_Witness ==
  \E c \in Calls :
    /\ pc[c] = "resolved"
    /\ StartsWith(response[c].body, JSON_PADDING)
    /\ DOMAIN outcome[c].val.props = {"disposition", "fileName", "scanResult", "sizeBytes"}
    /\ outcome[c].val.props["sizeBytes"] = Num(114590)

\* C9: the padding is stripped only as the prefix of the body: a body that does not
\* start with it fails to parse, and from a body that starts with it exactly the
\* prefix is removed.
C9_PaddingOnlyAsPrefix ==
  \A c \in Calls :
    response[c].kind = "response"
      => IF StartsWith(response[c].body, JSON_PADDING)
           THEN outcome[c] = JSONparse(From(response[c].body, Len(JSON_PADDING) + 1))
         ELSE Rejected(c, "SyntaxError", "Unexpected token in JSON")

\* C10: a call issues at most one request; a request that failed ends the call
\* rejected, and a settled call issues nothing more and keeps its outcome; a step of
\* one call leaves every other call alone, and calls with the same input and the same
\* response have the same outcome.
C10_State ==
  \A c \in Calls :
    /\ Len(requests[c]) <= 1
    /\ response[c].kind = "error" => pc[c] = "rejected"
    /\ \A d \in Calls :
         (Settled(c) /\ Settled(d) /\ input[c] = input[d] /\ response[c] = response[d])
           => outcome[c] = outcome[d]

C10_Step ==
  \A c \in Calls :
    /\ Settled(c)
         => /\ pc'[c] = pc[c] /\ outcome'[c] = outcome[c]
            /\ requests'[c] = requests[c] /\ response'[c] = response[c]
    /\ pc'[c] # pc[c]
         => \A d \in Calls \ {c} :
              /\ pc'[d] = pc[d] /\ outcome'[d] = outcome[d] /\ input'[d] = input[d]
              /\ requests'[d] = requests[d] /\ response'[d] = response[d]

\* C10: at most one request per call and no retry (C10_State in every state), and
\* settled calls and the other calls are left alone by every step (C10_Step).
C10_SingleRequestNoRetry == [](C10_State) /\ [][C10_Step]_vars

C10_Witness ==
  \E c, d \in Calls :
    /\ c # d
    /\ pc[c] = "rejected" /\ response[c].kind = "error" /\ Len(requests[c]) = 1
    /\ pc[d] = "awaiting" /\ Len(requests[d]) = 1

\* ---------------------------------------------------------------- getItemId
Extracted == extracted # NoValue
IsLink(p) == p.raw = ""
LastSegment(p) == IF p.segs = <<>> THEN "" ELSE p.segs[Len(p.segs)]
BeforeLast(p) == IF Len(p.segs) >= 2 THEN p.segs[Len(p.segs) - 1] ELSE ""
IdParams(p) == {i \in 1..Len(p.query) : p.query[i][1] = "id"}
FirstIdParam(p) == p.query[Least(IdParams(p))][2]
DSegments(p) == {i \in 1..(Len(p.segs) - 1) : p.segs[i] = "d"}
AfterD(p) == p.segs[Least(DSegments(p)) + 1]

\* C5 as stated: for a link with an id query parameter, whatever its path, getItemId
\* returns the value of that parameter.
C5_IdParamAnyPath ==
  (Extracted /\ IsLink(parts) /\ IdParams(parts) # {})
    => extracted = Return(Str(FirstIdParam(parts)))

\* C5 amended: for a link whose last path segment is open and which has an id query
\* parameter, getItemId returns the value of the first id parameter.
C5_IdParamOfOpenLink ==
  (Extracted /\ IsLink(parts) /\ LastSegment(parts) = "open" /\ IdParams(parts) # {})
    => extracted = Return(Str(FirstIdParam(parts)))

C5_Witness ==
  /\ Extracted
  /\ parts.segs = <<"a", "open">>
  /\ Cardinality(IdParams(parts)) = 2
  /\ extracted = Return(Str(PictureId))

\* C6 as stated: for a link without an id query parameter whose path has a segment d,
\* getItemId returns the segment after that d, whatever follows.
C6_SegmentAfterD ==
  (Extracted /\ IsLink(parts) /\ IdParams(parts) = {} /\ DSegments(parts) # {})
    => extracted = Return(Str(AfterD(parts)))

\* C6 amended: for a link whose last path segment is view, getItemId returns the path
\* segment just before that last segment (the empty string when there is none), with
\* or without an id query parameter.
C6_SegmentBeforeView ==
  (Extracted /\ IsLink(parts) /\ LastSegment(parts) = "view")
    => extracted = Return(Str(BeforeLast(parts)))

C6_Witness ==
  /\ Extracted
  /\ parts.segs = <<"file", "d", PublicId, "view">>
  /\ IdParams(parts) # {}
  /\ extracted = Return(Str(PublicId))

\* C7 as stated: for a URL with neither an id query parameter nor a d segment followed
\* by a segment, getItemId fails with an error.
C7_NoShapeThrows ==
  (Extracted /\ IdParams(parts) = {} /\ DSegments(parts) = {})
    => extracted.kind = "throw"

\* C7 amended: for a URL with neither shape, getItemId throws (a TypeError) only when
\* the URL cannot be parsed; otherwise it returns null when the last path segment is
\* open, the segment before the last when that is view, and undefined in every other
\* case.
C7_NoShapeReturnsNoId ==
  (Extracted /\ IdParams(parts) = {} /\ DSegments(parts) = {})
    => IF ~IsLink(parts)
         THEN extracted = Throw(TypeError("Cannot read property 'pathname' of undefined"))
       ELSE extracted = Return(IF LastSegment(parts) = "open" THEN Null
                               ELSE IF LastSegment(parts) = "view" THEN Str(BeforeLast(parts))
                               ELSE Undefined)

C7_Witness ==
  /\ Extracted
  /\ parts.segs = <<"uc">>
  /\ parts.query = <<<<"usp", "sharing">>>>
  /\ extracted = Return(Undefined)
====
